---- MODULE Spec2Model ----
(***************************************************************************)
(* Model of the spore plug-in: the `spore` command                         *)
(* (plug-ins/scripted/spore_command.py) acting on a host scene graph, and  *)
(* the brush state helper (scripts/data/brush_state.py).                   *)
(*                                                                         *)
(* Names are sequences of one-character strings, so that string            *)
(* formatting ('{}_'.format, '{s}{n:d}'.format) is real concatenation.     *)
(***************************************************************************)
EXTENDS Integers, Sequences, FiniteSets, TLC

\* ------------------------------------------------------------------ bounds

\* number of spore commands the host invokes in one session
MaxCmds == 2

\* ------------------------------------------------------------------ strings

DigitChars == <<"0", "1", "2", "3", "4", "5", "6", "7", "8", "9">>

RECURSIVE FormatInt(_)
\* '{n:d}'.format(n=n) for n >= 0
FormatInt(n) ==
    IF n < 10 THEN <<DigitChars[n + 1]>>
    ELSE FormatInt(n \div 10) \o <<DigitChars[(n % 10) + 1]>>

SporeStr == <<"S", "p", "o", "r", "e">>
SporeShapeStr == SporeStr \o <<"S", "h", "a", "p", "e">>
SporeInstancerStr ==
    SporeStr \o <<"I", "n", "s", "t", "a", "n", "c", "e", "r">>

ErrNothingSelected == "Spore Command failed: Nothing Selected"
ErrMoreThanOneShape == "Spore Command failed: Object has more than one shape"
ErrNotMesh == "Spore Command failed: Object is not of type kMesh"

\* ------------------------------------------------------------------ host scene

\* A null MObject / the world parent.
NullObj == 0

Node(type, name, parent, inScene) ==
    [type |-> type, name |-> name, parent |-> parent, inScene |-> inScene]

\* The scene the artist starts from: a plane (transform 1 + mesh 2), a curve
\* (transform 3 + nurbsCurve 4) and a transform holding two meshes (5, 6, 7).
BaseScene ==
    << Node("transform", <<"p">>, NullObj, TRUE),
       Node("mesh", <<"p", "S">>, 1, TRUE),
       Node("transform", <<"c">>, NullObj, TRUE),
       Node("nurbsCurve", <<"c", "S">>, 3, TRUE),
       Node("transform", <<"d">>, NullObj, TRUE),
       Node("mesh", <<"d", "S", "1">>, 5, TRUE),
       Node("mesh", <<"d", "S", "2">>, 5, TRUE) >>

\* Objects that already carry one of the names the command wants to give.
ExistingNames ==
    { <<>>,
      <<SporeStr, SporeStr \o <<"1">>, SporeInstancerStr>> }

InitialScene(extra) ==
    BaseScene \o [i \in 1..Len(extra) |-> Node("transform", extra[i], NullObj, TRUE)]

\* The selection lists the artist runs the command on (an MSelectionList holds
\* an object once): empty; valid targets, given as transform or as shape, alone
\* or followed by sources; a target followed by its own shape; targets that
\* are no mesh or hold two shapes.
Selections ==
    { <<>>,
      <<1>>, <<1, 3, 5>>, <<1, 2>>, <<2, 1>>,
      <<3>>, <<3, 1>>, <<5>>, <<5, 1, 3>> }

\* the -n / -name flag as the artist gives it
NameArgs ==
    { [flag |-> FALSE, value |-> <<>>],
      [flag |-> TRUE, value |-> <<"a">>] }

Plug(node, attr, index) == [node |-> node, attr |-> attr, index |-> index]
\* a plug that is no element of an array plug
NoIndex == -1

\* cmds.objExists(name)
objExists(ns, name) ==
    \E i \in DOMAIN ns : ns[i].inScene /\ ns[i].name = name

\* what the artist sees: the nodes in the scene with names and parenting, and
\* the connections between plugs
SceneGraph(ns, cs) ==
    [ nodes |-> { [id |-> i, type |-> ns[i].type, name |-> ns[i].name,
                   parent |-> ns[i].parent] : i \in {j \in DOMAIN ns : ns[j].inScene} },
      conns |-> cs ]

\* ------------------------------------------------------------------ MDagModifier

NewModifier == [ops |-> <<>>, done |-> 0]

CreateOp(node) == [op |-> "createNode", node |-> node, name |-> <<>>,
                   old |-> <<>>, src |-> NullObj, dst |-> NullObj]
RenameOp(node, name) == [op |-> "renameNode", node |-> node, name |-> name,
                         old |-> <<>>, src |-> NullObj, dst |-> NullObj]
ConnectOp(src, dst) == [op |-> "connect", node |-> NullObj, name |-> <<>>,
                        old |-> <<>>, src |-> src, dst |-> dst]

Queue(mod, op) == [mod EXCEPT !.ops = Append(@, op)]

ExecOp(op, st) ==
    CASE op.op = "createNode" ->
            [st EXCEPT !.nodes[op.node].inScene = TRUE]
      [] op.op = "renameNode" ->
            [st EXCEPT !.nodes[op.node].name = op.name]
      [] op.op = "connect" ->
            [st EXCEPT !.conns = @ \cup {[src |-> op.src, dst |-> op.dst]}]

UndoOp(op, st) ==
    CASE op.op = "createNode" ->
            [st EXCEPT !.nodes[op.node].inScene = FALSE,
                       !.conns = {c \in @ : c.src.node # op.node /\ c.dst.node # op.node}]
      [] op.op = "renameNode" ->
            [st EXCEPT !.nodes[op.node].name = op.old]
      [] op.op = "connect" ->
            [st EXCEPT !.conns = @ \ {[src |-> op.src, dst |-> op.dst]}]

RECURSIVE RunOps(_, _, _, _)
\* execute ops[i..j] in order
RunOps(ops, i, j, st) ==
    IF i > j THEN st ELSE RunOps(ops, i + 1, j, ExecOp(ops[i], st))

RECURSIVE UndoOps(_, _, _)
\* undo ops[i], ops[i-1], ..., ops[1]
UndoOps(ops, i, st) ==
    IF i = 0 THEN st ELSE UndoOps(ops, i - 1, UndoOp(ops[i], st))

\* MDagModifier.doIt: the operations queued since the last doIt are executed;
\* after an undoIt all of them are
ModDoIt(mod, st) ==
    LET first == mod.done + 1
        saved == [i \in DOMAIN mod.ops |->
                    IF i >= first /\ mod.ops[i].op = "renameNode"
                    THEN [mod.ops[i] EXCEPT
                            !.old = RunOps(mod.ops, first, i - 1, st).nodes[mod.ops[i].node].name]
                    ELSE mod.ops[i]]
    IN  [ mod |-> [ops |-> saved, done |-> Len(mod.ops)],
          st |-> RunOps(mod.ops, first, Len(mod.ops), st) ]

\* MDagModifier.undoIt: the executed operations are undone, last one first
ModUndoIt(mod, st) ==
    [ mod |-> [mod EXCEPT !.done = 0],
      st |-> UndoOps(mod.ops, mod.done, st) ]

\* MDagModifier.createNode: the node exists from now on (its plugs can be
\* looked up) and joins the scene when the modifier is executed
DefaultName(type, id) == <<type>> \o FormatInt(id)

createNode(ns, type, parent) ==
    Append(ns, Node(type, DefaultName(type, Len(ns) + 1), parent, FALSE))

\* MDagPath.extendToShape: NullObj stands for the RuntimeError
ShapesBelow(ns, id) ==
    {j \in DOMAIN ns : ns[j].inScene /\ ns[j].parent = id /\ ns[j].type # "transform"}

extendToShape(ns, id) ==
    IF ns[id].type # "transform" THEN id
    ELSE IF Cardinality(ShapesBelow(ns, id)) = 1
         THEN CHOOSE j \in ShapesBelow(ns, id) : TRUE
         ELSE NullObj

\* MDagPath.hasFn(om.MFn.kMesh)
hasFnMesh(ns, id) == ns[id].type = "mesh"

RECURSIVE fullPathName(_, _)
\* MFnDagNode.fullPathName
fullPathName(ns, id) ==
    IF id = NullObj THEN <<>>
    ELSE fullPathName(ns, ns[id].parent) \o <<"|">> \o ns[id].name

\* ------------------------------------------------------------------ SporeCommand

\* SporeCommand.__init__
NewCommand ==
    [ dag_mod_instancer |-> NewModifier,
      dag_mod_spore |-> NewModifier,
      dag_mod_transform |-> NewModifier,
      spore |-> NullObj,
      instancer |-> NullObj,
      spore_transform |-> NullObj,
      target |-> NullObj,
      source |-> <<>>,
      name |-> <<>>,
      result |-> <<>> ]

RECURSIVE unique_name_from(_, _, _, _)
\* the while loop of unique_name; count is the next value of it.count(1)
unique_name_from(ns, name, new_name, count) ==
    IF objExists(ns, new_name)
    THEN unique_name_from(ns, name, name \o FormatInt(count), count + 1)
    ELSE new_name

\* a unique_name that adds "1" once and does not look again
unique_name_once(ns, name) ==
    IF objExists(ns, name) THEN name \o FormatInt(1) ELSE name

unique_name(ns, name) == unique_name_from(ns, name, name, 1)

RECURSIVE parse_selection(_, _, _, _)
\* the loop of parse_args over the selection list, from index i (1-based)
parse_selection(c, ns, sel, i) ==
    IF i > Len(sel) THEN [ok |-> TRUE, cmd |-> c, log |-> <<>>]
    ELSE IF i = 1
         THEN LET shape == extendToShape(ns, sel[i])
              IN  IF shape = NullObj
                  THEN [ok |-> FALSE, cmd |-> c, log |-> <<ErrMoreThanOneShape>>]
                  ELSE IF hasFnMesh(ns, shape)
                       THEN parse_selection([c EXCEPT !.target = shape], ns, sel, i + 1)
                       ELSE [ok |-> FALSE, cmd |-> c, log |-> <<ErrNotMesh>>]
         ELSE parse_selection([c EXCEPT !.source = Append(@, sel[i])], ns, sel, i + 1)

\* a parse_args that takes any shape for a mesh
parse_args_any_shape(c, ns, args) ==
    LET named == IF args.name.flag THEN [c EXCEPT !.name = args.name.value] ELSE c
    IN  IF Len(args.sel) = 0
        THEN [ok |-> FALSE, cmd |-> named, log |-> <<ErrNothingSelected>>]
        ELSE [ok |-> TRUE,
              cmd |-> [named EXCEPT !.target = extendToShape(ns, args.sel[1]),
                                    !.source = Tail(args.sel)],
              log |-> <<>>]

\* SporeCommand.parse_args; an MArgDatabase object is never falsy, so the
\* 'No arguments provided' branch is not taken
parse_args(c, ns, args) ==
    LET named == IF args.name.flag THEN [c EXCEPT !.name = args.name.value] ELSE c
    IN  IF Len(args.sel) = 0
        THEN [ok |-> FALSE, cmd |-> named, log |-> <<ErrNothingSelected>>]
        ELSE parse_selection(named, ns, args.sel, 1)

\* a result list with the instancer first
redoItResult_swapped(ns, c) == <<fullPathName(ns, c.instancer), ns[c.spore].name>>

\* the result list redoIt builds
redoItResult(ns, c) == <<ns[c.spore].name, fullPathName(ns, c.instancer)>>

\* MPxCommand.clearResult / setResult
clearResult(r) == <<>>
setResult(r, v) == v

\* SporeCommand.redoIt
redoIt(c, st) ==
    LET t == ModDoIt(c.dag_mod_transform, st)
        s == ModDoIt(c.dag_mod_spore, t.st)
        i == ModDoIt(c.dag_mod_instancer, s.st)
        c1 == [c EXCEPT !.dag_mod_transform = t.mod,
                        !.dag_mod_spore = s.mod,
                        !.dag_mod_instancer = i.mod]
        result == redoItResult(i.st.nodes, c1)
    IN  [ cmd |-> [c1 EXCEPT !.result = setResult(clearResult(@), result)],
          st |-> i.st ]

\* an undoIt that forgets the spore modifier as well
undoIt_instancer_only(c, st) ==
    LET i == ModUndoIt(c.dag_mod_instancer, st)
    IN  [ cmd |-> [c EXCEPT !.dag_mod_instancer = i.mod], st |-> i.st ]

\* SporeCommand.undoIt
undoIt(c, st) ==
    LET i == ModUndoIt(c.dag_mod_instancer, st)
        s == ModUndoIt(c.dag_mod_spore, i.st)
    IN  [ cmd |-> [c EXCEPT !.dag_mod_instancer = i.mod,
                            !.dag_mod_spore = s.mod],
          st |-> s.st ]

RECURSIVE connect_sources_reversed(_, _, _, _)
\* a loop that fills inputHierarchy from the last source to the first
connect_sources_reversed(mod, source, instancer, i) ==
    IF i >= Len(source) THEN mod
    ELSE connect_sources_reversed(
            Queue(mod, ConnectOp(Plug(source[Len(source) - i], "matrix", NoIndex),
                                 Plug(instancer, "inputHierarchy", i))),
            source, instancer, i + 1)

RECURSIVE connect_sources(_, _, _, _)
\* the loop that connects matrix_plug_array[i] to inputHierarchy[i] (0-based i)
connect_sources(mod, source, instancer, i) ==
    IF i >= Len(source) THEN mod
    ELSE connect_sources(
            Queue(mod, ConnectOp(Plug(source[i + 1], "matrix", NoIndex),
                                 Plug(instancer, "inputHierarchy", i))),
            source, instancer, i + 1)

\* the names doIt hands to renameNode
doItNames(ns, name) ==
    LET prefix == IF name # <<>> THEN name \o <<"_">> ELSE name
    IN  [ prefix |-> prefix,
          transform_name |-> unique_name(ns, prefix \o SporeStr),
          spore_name |-> unique_name(ns, prefix \o SporeShapeStr),
          instancer_name |-> unique_name(ns, prefix \o SporeInstancerStr) ]

\* SporeCommand.doIt after parse_args succeeded, up to the call of redoIt
doItBuild(c, st) ==
    LET ns1 == createNode(st.nodes, "transform", NullObj)
        spore_transform == Len(ns1)
        ns2 == createNode(ns1, "sporeNode", spore_transform)
        spore == Len(ns2)
        ns3 == createNode(ns2, "instancer", NullObj)
        instancer == Len(ns3)
        names == doItNames(ns3, c.name)
        mod_t == Queue(Queue(c.dag_mod_transform, CreateOp(spore_transform)),
                       RenameOp(spore_transform, names.transform_name))
        mod_i == Queue(Queue(c.dag_mod_instancer, CreateOp(instancer)),
                       RenameOp(instancer, names.instancer_name))
        mod_s0 == Queue(Queue(c.dag_mod_spore, CreateOp(spore)),
                        RenameOp(spore, names.spore_name))
        mod_s1 == Queue(mod_s0, ConnectOp(Plug(spore, "instanceData", NoIndex),
                                          Plug(instancer, "inputPoints", NoIndex)))
        mod_s2 == Queue(mod_s1, ConnectOp(Plug(c.target, "outMesh", NoIndex),
                                          Plug(spore, "inMesh", NoIndex)))
        mod_s3 == connect_sources(mod_s2, c.source, instancer, 0)
    IN  [ cmd |-> [c EXCEPT !.spore_transform = spore_transform,
                            !.spore = spore,
                            !.instancer = instancer,
                            !.name = names.prefix,
                            !.dag_mod_transform = mod_t,
                            !.dag_mod_spore = mod_s3,
                            !.dag_mod_instancer = mod_i],
          st |-> [st EXCEPT !.nodes = ns3],
          names |-> names ]

\* SporeCommand.doIt
doIt(c, st, args) ==
    LET p == parse_args(c, st.nodes, args)
    IN  IF ~p.ok
        THEN [ok |-> FALSE, cmd |-> p.cmd, st |-> st, log |-> p.log]
        ELSE LET b == doItBuild(p.cmd, st)
                 r == redoIt(b.cmd, b.st)
             IN  [ok |-> TRUE, cmd |-> r.cmd, st |-> r.st, log |-> p.log]

\* ------------------------------------------------------------------ state

VARIABLES
    nodes,          \* every node the host holds, by handle; inScene tells whether it is in the DAG
    conns,          \* the connections of the dependency graph
    stack,          \* the host's undo queue: the SporeCommand instances that built a network
    cursor,         \* stack[1..cursor] are done, the rest are undone and can be redone
    history,        \* per command of the stack: its arguments and the scene around its doIt
    last,           \* the most recent call of the host into a SporeCommand
    invoked,        \* number of spore commands invoked so far
    brush,          \* the BrushState object
    attrs,          \* the attributes of the spore nodes
    instanceList,   \* the 'instanceList' textScrollList
    view,           \* the active 3d view
    ret             \* the most recent call into the BrushState and what it returned

cmdVars == <<nodes, conns, stack, cursor, history, last, invoked>>
brushVars == <<brush, attrs, instanceList, view, ret>>
vars == <<nodes, conns, stack, cursor, history, last, invoked,
          brush, attrs, instanceList, view, ret>>

Scene == SceneGraph(nodes, conns)

NamesIn(ns) == {ns[i].name : i \in {j \in DOMAIN ns : ns[j].inScene}}

NoArgs == [sel |-> <<>>, name |-> [flag |-> FALSE, value |-> <<>>]]

Last(op, args, ok, log, before, cmd, handles) ==
    [op |-> op, args |-> args, ok |-> ok, log |-> log, before |-> before,
     cmd |-> cmd, handles |-> handles]

NoLast == Last("none", NoArgs, FALSE, <<>>, SceneGraph(<<>>, {}), NewCommand, 0)

CmdInit ==
    /\ \E extra \in ExistingNames : nodes = InitialScene(extra)
    /\ conns = {}
    /\ stack = <<>>
    /\ cursor = 0
    /\ history = <<>>
    /\ last = NoLast
    /\ invoked = 0

\* the host runs `spore [-n name] selection`: a new SporeCommand, then doIt
DoIt ==
    /\ invoked < MaxCmds
    /\ \E sel \in Selections, name \in NameArgs :
         LET args == [sel |-> sel, name |-> name]
             r == doIt(NewCommand, [nodes |-> nodes, conns |-> conns], args)
         IN  /\ nodes' = r.st.nodes
             /\ conns' = r.st.conns
             /\ last' = Last("doIt", args, r.ok, r.log, Scene, r.cmd, Len(nodes))
             /\ IF r.ok
                THEN /\ stack' = Append(SubSeq(stack, 1, cursor), r.cmd)
                     /\ history' = Append(SubSeq(history, 1, cursor),
                            [ args |-> args,
                              before |-> Scene,
                              after |-> SceneGraph(r.st.nodes, r.st.conns),
                              existing |-> NamesIn(nodes),
                              redone |-> FALSE ])
                     /\ cursor' = cursor + 1
                ELSE UNCHANGED <<stack, history, cursor>>
    /\ invoked' = invoked + 1
    /\ UNCHANGED brushVars

\* the host undoes the command on top of the undo queue
UndoIt ==
    /\ cursor > 0
    /\ LET r == undoIt(stack[cursor], [nodes |-> nodes, conns |-> conns])
       IN  /\ nodes' = r.st.nodes
           /\ conns' = r.st.conns
           /\ stack' = [stack EXCEPT ![cursor] = r.cmd]
    /\ last' = NoLast
    /\ UNCHANGED history
    /\ cursor' = cursor - 1
    /\ UNCHANGED <<invoked>>
    /\ UNCHANGED brushVars

\* the host redoes the command that was undone last
RedoIt ==
    /\ cursor < Len(stack)
    /\ LET r == redoIt(stack[cursor + 1], [nodes |-> nodes, conns |-> conns])
       IN  /\ nodes' = r.st.nodes
           /\ conns' = r.st.conns
           /\ stack' = [stack EXCEPT ![cursor + 1] = r.cmd]
    /\ last' = NoLast
    /\ history' = [history EXCEPT ![cursor + 1].redone = TRUE]
    /\ cursor' = cursor + 1
    /\ UNCHANGED <<invoked>>
    /\ UNCHANGED brushVars

\* ------------------------------------------------------------------ host: attributes, list, view

\* '{}'.format(None): with no node assigned the code asks for 'None.<attr>'
NoneNode == "None"

\* the spore nodes of the scene the brush can work on
SporeNodes == {"sporeShape1", "sporeShape2"}
\* what the context may hand to the node setter: a spore node, or a name no node has
NodeInputs == SporeNodes \cup {"deleted"}

NodeAttrs(radius, mode, align) ==
    [ brushRadius |-> radius, contextMode |-> mode, alignTo |-> align,
      numBrushSamples |-> 4, minDistance |-> 1, fallOff |-> 0, strength |-> 1,
      minRotation |-> << <<0, 0, 0>> >>, maxRotation |-> << <<0, 90, 0>> >>,
      uniformScale |-> 1, minScale |-> << <<1, 1, 1>> >>, maxScale |-> << <<2, 2, 2>> >>,
      scaleFactor |-> 1, scaleAmount |-> 1, minOffset |-> 0, maxOffset |-> 1 ]

\* cmds.getAttr / cmds.setAttr fail when no object has the name
hasNode(at, node) == node \in DOMAIN at

\* the textScrollList 'instanceList': its items and the selected ones
ListItem(index, name) == <<"[">> \o FormatInt(index) \o <<"]", ":", " ">> \o name
InstanceLists ==
    { [ai |-> <<>>, si |-> <<>>],
      [ai |-> <<ListItem(0, <<"p">>), ListItem(1, <<"c">>)>>, si |-> <<>>],
      [ai |-> <<ListItem(0, <<"p">>), ListItem(1, <<"c">>)>>, si |-> <<ListItem(1, <<"c">>)>>] }

RECURSIVE split_first(_)
\* s.split(' ')[0]
split_first(s) ==
    IF s = <<>> \/ Head(s) = " " THEN <<>> ELSE <<Head(s)>> \o split_first(Tail(s))

RECURSIVE lstrip(_, _)
lstrip(s, chars) ==
    IF s # <<>> /\ Head(s) \in chars THEN lstrip(Tail(s), chars) ELSE s

RECURSIVE rstrip(_, _)
rstrip(s, chars) ==
    IF s # <<>> /\ s[Len(s)] \in chars THEN rstrip(SubSeq(s, 1, Len(s) - 1), chars) ELSE s

\* s.strip(chars)
strip(s, chars) == rstrip(lstrip(s, chars), chars)

DigitValue(ch) == CHOOSE d \in 0..9 : DigitChars[d + 1] = ch

RECURSIVE int(_)
\* int(s) for a string of decimal digits
int(s) ==
    IF Len(s) = 1 THEN DigitValue(s[1])
    ELSE 10 * int(SubSeq(s, 1, Len(s) - 1)) + DigitValue(s[Len(s)])

\* [int(s.split(' ')[0].strip('[]:')) for s in items]
object_index(items) ==
    [i \in DOMAIN items |-> int(strip(split_first(items[i]), {"[", "]", ":"}))]

\* a short as MScriptUtil.getShort reads it
ToShort(v) == ((v + 32768) % 65536) - 32768

\* doubles are kept in thousandths
MPoint(x, y, z) == <<1000 * x, 1000 * y, 1000 * z>>
MVector(x, y, z) == <<1000 * x, 1000 * y, 1000 * z>>

\* the views the artist can paint in: pixels per unit, the pixel of the world
\* origin, the world axes shown along x and y, and the height of the port
Views ==
    { [scale |-> 10, cx |-> 320, cy |-> 240, ax |-> 1, ay |-> 2, portHeight |-> 480],
      [scale |-> 9000, cx |-> 400, cy |-> 300, ax |-> 1, ay |-> 3, portHeight |-> 600] }

\* M3dView.worldToView(point, x_ptr, y_ptr) followed by getShort
worldToView(v, point) ==
    [ x |-> ToShort(v.cx + ((point[v.ax] * v.scale) \div 1000)),
      y |-> ToShort(v.cy + ((point[v.ay] * v.scale) \div 1000)) ]

\* cos and sin of i * 18 degrees, in thousandths, i = 0..20
Cos18 == <<1000, 951, 809, 588, 309, 0, -309, -588, -809, -951, -1000,
           -951, -809, -588, -309, 0, 309, 588, 809, 951, 1000>>
Sin18 == <<0, 309, 588, 809, 951, 1000, 951, 809, 588, 309, 0,
           -309, -588, -809, -951, -1000, -951, -809, -588, -309, 0>>

Cross(a, b) ==
    << a[2] * b[3] - a[3] * b[2], a[3] * b[1] - a[1] * b[3], a[1] * b[2] - a[2] * b[1] >>
Dot(a, b) == a[1] * b[1] + a[2] * b[2] + a[3] * b[3]

\* tan.rotateBy(om.MQuaternion(theta * i, nrm)) with theta = radians(360 / 20)
rotateBy(tan, i, nrm) ==
    LET c == Cos18[i + 1]
        s == Sin18[i + 1]
        nxt == Cross(nrm, tan)
        nt == Dot(nrm, tan) \div 1000
    IN  [k \in 1..3 |->
            ((tan[k] * c) \div 1000)
            + (((nxt[k] \div 1000) * s) \div 1000)
            + ((((nrm[k] * nt) \div 1000) * (1000 - c)) \div 1000)]

\* ------------------------------------------------------------------ BrushState

\* BrushState.__init__ (the fields the methods read or write)
NewBrushState ==
    [ draw |-> FALSE,
      position |-> <<>>,
      normal |-> <<>>,
      tangent |-> <<>>,
      _node |-> NoneNode,
      _radius |-> 1,
      shift_mod |-> FALSE,
      settings |-> <<>> ]

Return(op, raised, isNone, value, queries) ==
    [op |-> op, raised |-> raised, isNone |-> isNone, value |-> value, queries |-> queries]

\* the node setter
set_node(b, at, node) ==
    LET b1 == [b EXCEPT !._node = node]
    IN  IF hasNode(at, node)
        THEN [brush |-> [b1 EXCEPT !._radius = at[node].brushRadius],
              attrs |-> at, raised |-> "none"]
        ELSE [brush |-> b1, attrs |-> at, raised |-> "ValueError"]

\* the radius setter
set_radius(b, at, radius) ==
    LET b1 == [b EXCEPT !._radius = radius]
    IN  IF hasNode(at, b1._node)
        THEN [brush |-> b1, attrs |-> [at EXCEPT ![b1._node].brushRadius = radius],
              raised |-> "none"]
        ELSE [brush |-> b1, attrs |-> at, raised |-> "RuntimeError"]

modes == <<"place", "spray", "scale", "align", "move", "id", "remove">>
align_modes == <<"normal", "world", "object", "stroke">>

\* BrushState.get_brush_settings
get_brush_settings(b, at, list) ==
    IF list.si = <<>> /\ list.ai = <<>>
    THEN \* textScrollList answers None for an empty list
         [brush |-> b, attrs |-> at, raised |-> "TypeError"]
    ELSE IF ~hasNode(at, b._node)
    THEN [brush |-> b, attrs |-> at, raised |-> "ValueError"]
    ELSE LET ids == IF list.si # <<>> THEN object_index(list.si) ELSE object_index(list.ai)
             a == at[b._node]
             settings ==
                [ mode |-> modes[a.contextMode + 1],
                  num_samples |-> a.numBrushSamples,
                  min_distance |-> a.minDistance,
                  fall_off |-> a.fallOff,
                  align_to |-> align_modes[a.alignTo + 1],
                  strength |-> a.strength,
                  min_rot |-> a.minRotation[1],
                  max_rot |-> a.maxRotation[1],
                  uni_scale |-> a.uniformScale,
                  min_scale |-> a.minScale[1],
                  max_scale |-> a.maxScale[1],
                  scale_factor |-> a.scaleFactor,
                  scale_amount |-> a.scaleAmount,
                  min_offset |-> a.minOffset,
                  max_offset |-> a.maxOffset,
                  ids |-> ids ]
         IN  set_radius([b EXCEPT !.settings = <<settings>>], at, a.brushRadius)

\* BrushState.world_to_view
world_to_view(v, position, invert_y) ==
    LET p == worldToView(v, position)
        y_pos == IF invert_y THEN v.portHeight - p.y ELSE p.y
    IN  <<p.x, y_pos>>

\* a get_screen_position that never inverts y
get_screen_position_maya(b, v, invert_y) ==
    IF b.draw
    THEN LET p == worldToView(v, MPoint(b.position[1], b.position[2], b.position[3]))
         IN  Return("get_screen_position", "none", FALSE, <<p.x, p.y>>, 1)
    ELSE Return("get_screen_position", "none", TRUE, <<>>, 0)

\* BrushState.get_screen_position
get_screen_position(b, v, invert_y) ==
    IF b.draw
    THEN LET point == MPoint(b.position[1], b.position[2], b.position[3])
             p == worldToView(v, point)
             x_pos == p.x
             y_pos == IF invert_y THEN v.portHeight - p.y ELSE p.y
         IN  Return("get_screen_position", "none", FALSE, <<x_pos, y_pos>>, 1)
    ELSE Return("get_screen_position", "none", TRUE, <<>>, 0)

\* the number of steps of the circle and the half size of the cross, in pixels
CircleSteps == 20
CrossSize == 15

\* the circle of create_brush_shape: range(20 + 1)
circle_shape(b, v, last_i) ==
    LET pnt == MPoint(b.position[1], b.position[2], b.position[3])
        nrm == MVector(b.normal[1], b.normal[2], b.normal[3])
        tan == MVector(b.tangent[1], b.tangent[2], b.tangent[3])
    IN  [k \in 1..(last_i + 1) |->
            LET rtan == rotateBy(tan, k - 1, nrm)
                pos == [j \in 1..3 |-> pnt[j] + rtan[j] * b._radius]
            IN  world_to_view(v, pos, TRUE)]

\* a create_brush_shape whose circle stops at range(20)
create_brush_shape_open(b, v) ==
    IF b.draw /\ ~b.shift_mod
    THEN Return("create_brush_shape", "none", FALSE,
                <<circle_shape(b, v, CircleSteps - 1)>>, CircleSteps)
    ELSE Return("create_brush_shape", "none", TRUE, <<>>, 0)

\* BrushState.create_brush_shape
create_brush_shape(b, v) ==
    IF b.draw
    THEN IF b.shift_mod
         THEN LET pnt == MPoint(b.position[1], b.position[2], b.position[3])
                  p == world_to_view(v, pnt, TRUE)
                  pos_x == p[1]
                  pos_y == p[2]
              IN  Return("create_brush_shape", "none", FALSE,
                         << << <<pos_x - CrossSize, pos_y - CrossSize>>,
                               <<pos_x + CrossSize, pos_y + CrossSize>> >>,
                            << <<pos_x - CrossSize, pos_y + CrossSize>>,
                               <<pos_x + CrossSize, pos_y - CrossSize>> >> >>,
                         1)
         ELSE Return("create_brush_shape", "none", FALSE,
                     <<circle_shape(b, v, CircleSteps)>>, CircleSteps + 1)
    ELSE Return("create_brush_shape", "none", TRUE, <<>>, 0)

\* ------------------------------------------------------------------ brush state machine

Positions == { <<0, 0, 0>>, <<4, -2, 1>>, <<-1, 3, 2>> }
Frames ==
    { [normal |-> <<0, 0, 1>>, tangent |-> <<1, 0, 0>>],
      [normal |-> <<0, 1, 0>>, tangent |-> <<0, 0, 1>>] }
Radii == {2, 3}

InitAttrs ==
    [n \in SporeNodes |->
        IF n = "sporeShape1" THEN NodeAttrs(5, 0, 0) ELSE NodeAttrs(7, 2, 3)]

NoReturn == Return("none", "none", TRUE, <<>>, 0)

BrushInit ==
    /\ brush = NewBrushState
    /\ attrs = InitAttrs
    /\ instanceList \in InstanceLists
    /\ view \in Views
    /\ ret = NoReturn

\* the painting context follows the cursor: it writes the public fields
Track ==
    /\ \E draw \in BOOLEAN, shift \in BOOLEAN, pos \in Positions, f \in Frames :
         brush' = [brush EXCEPT !.draw = draw, !.shift_mod = shift, !.position = pos,
                                !.normal = f.normal, !.tangent = f.tangent]
    /\ ret' = Return("track", "none", TRUE, <<>>, 0)
    /\ UNCHANGED <<attrs, instanceList, view>>
    /\ UNCHANGED cmdVars

\* state.node = node
SetNode ==
    /\ \E node \in NodeInputs :
         LET r == set_node(brush, attrs, node)
         IN  /\ brush' = r.brush
             /\ attrs' = r.attrs
             /\ ret' = Return("set_node", r.raised, TRUE, <<>>, 0)
    /\ UNCHANGED <<instanceList, view>>
    /\ UNCHANGED cmdVars

\* state.radius = radius
SetRadius ==
    /\ \E radius \in Radii :
         LET r == set_radius(brush, attrs, radius)
         IN  /\ brush' = r.brush
             /\ attrs' = r.attrs
             /\ ret' = Return("set_radius", r.raised, TRUE, <<>>, 0)
    /\ UNCHANGED <<instanceList, view>>
    /\ UNCHANGED cmdVars

GetBrushSettings ==
    /\ LET r == get_brush_settings(brush, attrs, instanceList)
       IN  /\ brush' = r.brush
           /\ attrs' = r.attrs
           /\ ret' = Return("get_brush_settings", r.raised, TRUE, <<>>, 0)
    /\ UNCHANGED <<instanceList, view>>
    /\ UNCHANGED cmdVars

GetScreenPosition ==
    /\ \E invert_y \in BOOLEAN :
         ret' = [get_screen_position(brush, view, invert_y) EXCEPT
                    !.op = IF invert_y THEN "get_screen_position(True)"
                           ELSE "get_screen_position(False)"]
    /\ UNCHANGED <<brush, attrs, instanceList, view>>
    /\ UNCHANGED cmdVars

CreateBrushShape ==
    /\ ret' = create_brush_shape(brush, view)
    /\ UNCHANGED <<brush, attrs, instanceList, view>>
    /\ UNCHANGED cmdVars

\* ------------------------------------------------------------------ specifications

\* the spore command in a session of the host
Init ==
    /\ CmdInit
    /\ brush = NewBrushState
    /\ attrs = InitAttrs
    /\ instanceList = [ai |-> <<>>, si |-> <<>>]
    /\ view = CHOOSE v \in Views : v.scale = 10
    /\ ret = NoReturn

Next == DoIt \/ UndoIt \/ RedoIt

Spec == Init /\ [][Next]_vars

\* the brush state while the artist paints
InitBrush ==
    /\ BrushInit
    /\ nodes = InitialScene(<<>>)
    /\ conns = {}
    /\ stack = <<>>
    /\ cursor = 0
    /\ history = <<>>
    /\ last = NoLast
    /\ invoked = 0

NextBrush ==
    Track \/ SetNode \/ SetRadius \/ GetBrushSettings \/ GetScreenPosition \/ CreateBrushShape

SpecBrush == InitBrush /\ [][NextBrush]_vars

\* ------------------------------------------------------------------ properties of the command

\* the nodes and connections the doIt of command k added
NewNodes(k) == history[k].after.nodes \ history[k].before.nodes
NewConns(k) == history[k].after.conns \ history[k].before.conns
NewNode(k, type) == CHOOSE n \in NewNodes(k) : n.type = type

\* the mesh shape a selected object stands for: itself, or the shape below it
ShapeOf(o) ==
    CHOOSE j \in DOMAIN BaseScene :
        /\ BaseScene[j].type # "transform"
        /\ j = o \/ BaseScene[j].parent = o

Connects(c, a, b) ==
    \/ c.src.node = a /\ c.dst.node = b
    \/ c.src.node = b /\ c.dst.node = a

WiredAsDocumented(k) ==
    LET sel == history[k].args.sel
        sp == NewNode(k, "sporeNode").id
        inst == NewNode(k, "instancer").id
    IN  /\ history[k].before.conns \subseteq history[k].after.conns
        /\ NewConns(k) =
             { [src |-> Plug(sp, "instanceData", NoIndex),
                dst |-> Plug(inst, "inputPoints", NoIndex)],
               [src |-> Plug(ShapeOf(sel[1]), "outMesh", NoIndex),
                dst |-> Plug(sp, "inMesh", NoIndex)] }
             \cup
             { [src |-> Plug(sel[i + 1], "matrix", NoIndex),
                dst |-> Plug(inst, "inputHierarchy", i - 1)] : i \in 1..(Len(sel) - 1) }
        /\ \A c \in NewConns(k) : ~Connects(c, sel[1], inst)

\* C1 as stated: after a successful doIt the new connections are exactly
\* instanceData -> inputPoints, the target's outMesh -> inMesh and the matrix of
\* the i-th later object -> inputHierarchy[i-1]; the first object is not
\* connected to the instancer and no later object is connected to the spore node.
C1_Original ==
    \A k \in DOMAIN stack :
        /\ WiredAsDocumented(k)
        /\ \A i \in 2..Len(history[k].args.sel), c \in NewConns(k) :
              ~Connects(c, history[k].args.sel[i], NewNode(k, "sporeNode").id)

\* C1 amended: as above, but a later object is connected to the spore node
\* exactly when it is the mesh shape the first object resolves to.
C1_Wiring ==
    \A k \in DOMAIN stack :
        /\ WiredAsDocumented(k)
        /\ \A i \in 2..Len(history[k].args.sel) :
              (\E c \in NewConns(k) :
                  Connects(c, history[k].args.sel[i], NewNode(k, "sporeNode").id))
              <=> history[k].args.sel[i] = ShapeOf(history[k].args.sel[1])

C1_Witness ==
    \E k \in DOMAIN stack :
        /\ Len(history[k].args.sel) = 3
        /\ k > 1
        /\ Cardinality(NewConns(k)) = 4

\* the shapes the first selected object stands for
FirstShapes(o) ==
    IF nodes[o].type # "transform" THEN {o}
    ELSE {j \in DOMAIN nodes : nodes[j].inScene /\ nodes[j].parent = o
                               /\ nodes[j].type # "transform"}

\* the three cases in which the command has nothing to work on
NothingToWorkOn(sel) ==
    \/ sel = <<>>
    \/ sel # <<>> /\ Cardinality(FirstShapes(sel[1])) > 1
    \/ sel # <<>> /\ \E j \in FirstShapes(sel[1]) : nodes[j].type # "mesh"

\* C2: with an empty selection, a first object with more than one shape or a
\* first object that is no mesh, doIt logs one error and returns with the scene
\* graph as it was, no node created and nothing queued or executed on any of
\* the three modifiers.
C2_FailureLeavesSceneAlone ==
    (last.op = "doIt" /\ NothingToWorkOn(last.args.sel)) =>
        /\ ~last.ok
        /\ Len(last.log) = 1
        /\ last.log[1] \in {ErrNothingSelected, ErrMoreThanOneShape, ErrNotMesh}
        /\ Scene = last.before
        /\ Len(nodes) = last.handles
        /\ last.cmd.dag_mod_transform = [ops |-> <<>>, done |-> 0]
        /\ last.cmd.dag_mod_spore = [ops |-> <<>>, done |-> 0]
        /\ last.cmd.dag_mod_instancer = [ops |-> <<>>, done |-> 0]

C2_Witness ==
    /\ last.op = "doIt"
    /\ ~last.ok
    /\ last.args.sel # <<>>
    /\ last.args.sel[1] = 5
    /\ cursor = 1

\* C3: after the undoIt of a command the scene graph is what it was before
\* its doIt: every node and every connection the doIt added is gone.
C3_UndoRestores ==
    \A k \in DOMAIN stack : cursor = k - 1 => Scene = history[k].before

\* C4: while a command is done (after its doIt and after every redoIt) its
\* result is the name of its spore shape followed by the full path of its
\* instancer, and nothing else.
C4_Result ==
    \A k \in 1..cursor :
        /\ Len(stack[k].result) = 2
        /\ stack[k].result[1] = nodes[NewNode(k, "sporeNode").id].name
        /\ stack[k].result[2] = <<"|">> \o nodes[NewNode(k, "instancer").id].name
        /\ stack[k].result[1] = NewNode(k, "sporeNode").name
        /\ nodes[NewNode(k, "instancer").id].parent = NullObj

C4_Witness ==
    \E k \in 1..cursor : history[k].redone /\ Len(stack[k].result) = 2

\* what unique_name(base) has to answer in a scene whose names are `existing`
IsUniqueName(existing, base, answer) ==
    /\ answer \notin existing
    /\ base \notin existing => answer = base
    /\ base \in existing =>
          \E n \in 1..(Cardinality(existing) + 1) :
              /\ answer = base \o FormatInt(n)
              /\ \A m \in 1..(n - 1) : (base \o FormatInt(m)) \in existing

PrefixOf(args) ==
    IF args.name.flag /\ args.name.value # <<>> THEN args.name.value \o <<"_">> ELSE <<>>

\* C5: every name a doIt gives is the wanted name if that is free and else the
\* wanted name with the smallest free number from 1 on; no two nodes of the
\* scene carry the same name.
C5_UniqueNames ==
    /\ \A k \in DOMAIN stack :
          LET pre == PrefixOf(history[k].args)
              old == history[k].existing
          IN  /\ IsUniqueName(old, pre \o SporeStr, NewNode(k, "transform").name)
              /\ IsUniqueName(old, pre \o SporeShapeStr, NewNode(k, "sporeNode").name)
              /\ IsUniqueName(old, pre \o SporeInstancerStr, NewNode(k, "instancer").name)
    /\ \A i, j \in DOMAIN nodes :
          (i # j /\ nodes[i].inScene /\ nodes[j].inScene) => nodes[i].name # nodes[j].name

C5_Witness ==
    /\ cursor = 2
    /\ NewNode(1, "transform").name = SporeStr \o <<"2">>
    /\ NewNode(2, "transform").name = SporeStr \o <<"3">>
    /\ NewNode(2, "sporeNode").name = SporeShapeStr \o <<"1">>

\* C6: when the newest command is done again by redoIt, after any number of
\* undoIt and redoIt, the scene graph is the one its doIt left: the same nodes,
\* names, parenting and connections.
C6_RedoReestablishes ==
    \A k \in DOMAIN stack :
        (cursor = k /\ k = Len(stack)) => Scene = history[k].after

C6_Witness ==
    \E k \in DOMAIN stack :
        /\ cursor = k
        /\ k = Len(stack)
        /\ k > 1
        /\ history[k].redone
        /\ history[k - 1].redone

\* ------------------------------------------------------------------ properties of the brush state

IsPoint2(p) == Len(p) = 2 /\ p[1] \in Int /\ p[2] \in Int

\* C7: with draw set and shift not held, create_brush_shape answers one shape
\* of 21 points, the last one on the first, whatever the radius; with shift
\* held it answers the two diagonals of a cross that reaches 15 pixels from
\* the projected position along x and along y.
C7_BrushShape ==
    (ret.op = "create_brush_shape" /\ brush.draw) =>
        /\ ~ret.isNone
        /\ IF brush.shift_mod
           THEN LET c == get_screen_position(brush, view, TRUE).value
                IN  /\ Len(ret.value) = 2
                    /\ ret.value[1] = << <<c[1] - 15, c[2] - 15>>, <<c[1] + 15, c[2] + 15>> >>
                    /\ ret.value[2] = << <<c[1] - 15, c[2] + 15>>, <<c[1] + 15, c[2] - 15>> >>
           ELSE /\ Len(ret.value) = 1
                /\ Len(ret.value[1]) = 21
                /\ \A i \in 1..21 : IsPoint2(ret.value[1][i])
                /\ ret.value[1][21] = ret.value[1][1]

C7_Witness ==
    /\ ret.op = "create_brush_shape"
    /\ brush.draw
    /\ ~brush.shift_mod
    /\ brush._radius = 3
    /\ Len(ret.value[1]) = 21
    /\ ret.value[1][1] # ret.value[1][6]

\* C8: get_screen_position answers None without asking the viewport when draw
\* is not set; with draw set it answers the projection of position, y taken
\* from the height of the port exactly when invert_y is set, which is what
\* world_to_view answers for the same position.
C8_ScreenPosition ==
    (ret.op \in {"get_screen_position(True)", "get_screen_position(False)"}) =>
        LET invert_y == ret.op = "get_screen_position(True)"
        IN  IF brush.draw
            THEN LET point == MPoint(brush.position[1], brush.position[2], brush.position[3])
                     p == worldToView(view, point)
                 IN  /\ ~ret.isNone
                     /\ ret.value = <<p.x, IF invert_y THEN view.portHeight - p.y ELSE p.y>>
                     /\ ret.value = world_to_view(view, point, invert_y)
            ELSE ret.isNone /\ ret.queries = 0

C8_Witness ==
    /\ ret.op = "get_screen_position(True)"
    /\ brush.draw
    /\ ~ret.isNone
    /\ ret.value[2] # worldToView(view, MPoint(brush.position[1], brush.position[2],
                                               brush.position[3])).y

\* the cached radius is the brushRadius of the assigned node
RadiusMirrorsNode ==
    hasNode(attrs, brush._node) => brush._radius = attrs[brush._node].brushRadius

\* C9: once a node is assigned the cached radius is the node's brushRadius, and
\* an assignment to radius that fails for want of a node leaves the cached
\* radius as it was.
C9_RadiusInvariant ==
    /\ []RadiusMirrorsNode
    /\ [][(ret'.op = "set_radius" /\ ret'.raised # "none" /\ brush._node = NoneNode)
            => brush'._radius = brush._radius]_vars

====
